---- MODULE Spec2Model ----
(***************************************************************************)
(* A model of filesorter.py: main validates its arguments and calls        *)
(* read_folder on the source directory; read_folder enumerates a directory *)
(* and creates one asyncio task per regular file (copy_file) and, when     *)
(* recursive, one per subdirectory (read_folder), then awaits them with    *)
(* asyncio.gather; copy_file picks the extension folder and a free name,   *)
(* reads the source in the executor, opens the destination "wb" and writes *)
(* it in the executor.                                                     *)
(*                                                                         *)
(* A step of the model is what one task does between two suspension points *)
(* of the event loop (an await of run_in_executor or of gather).           *)
(* File names are sequences of one-character strings, so that suffix,      *)
(* stem and lower() are computed and not assumed.                          *)
(***************************************************************************)
EXTENDS Integers, Sequences, FiniteSets, TLC

\* ------------------------------------------------------------------ bounds
\* number of regular files in the source tree
NumFiles == 2
\* number of subdirectories below the source directory
NumSubDirs == 2
\* how many of the names a.txt, a_1.txt, a_2.txt, ... may already be in <dest>/txt
MaxPre == 2
\* how many times the program is run, one run after the other
MaxRuns == 2
\* how many operating-system errors (OSError) the environment raises in total
MaxErrors == 1

Files == 1..NumFiles
\* directory 0 is the source directory given on the command line
Dirs == 0..NumSubDirs
SubDirs == 1..NumSubDirs

\* ------------------------------------------------------------- characters
UpperChars == <<"A","B","C","D","E","F","G","H","I","J","K","L","M",
                "N","O","P","Q","R","S","T","U","V","W","X","Y","Z">>
LowerChars == <<"a","b","c","d","e","f","g","h","i","j","k","l","m",
                "n","o","p","q","r","s","t","u","v","w","x","y","z">>
DigitChars == <<"0","1","2","3","4","5","6","7","8","9">>

\* str.lower() on one character
LowerChar(c) ==
    IF \E i \in 1..Len(UpperChars) : UpperChars[i] = c
    THEN LowerChars[CHOOSE i \in 1..Len(UpperChars) : UpperChars[i] = c]
    ELSE c

\* str.lower()
Lower(s) == [i \in 1..Len(s) |-> LowerChar(s[i])]

\* str.rfind("."), 1-based; 0 when there is no dot
RFindDot(name) ==
    IF \E i \in 1..Len(name) : name[i] = "."
    THEN CHOOSE i \in 1..Len(name) :
            name[i] = "." /\ \A j \in (i+1)..Len(name) : name[j] # "."
    ELSE 0

\* PurePath.suffix: name[i:] when 0 < i < len(name) - 1 for the 0-based index i
\* of the last dot, else the empty string
Suffix(name) ==
    LET i == RFindDot(name)
    IN  IF 1 < i /\ i < Len(name) THEN SubSeq(name, i, Len(name)) ELSE <<>>

\* PurePath.stem: name[:i] under the same condition, else the whole name
Stem(name) ==
    LET i == RFindDot(name)
    IN  IF 1 < i /\ i < Len(name) THEN SubSeq(name, 1, i - 1) ELSE name

\* the sentinel category "no_extension"
NoExtension == <<"n","o","_","e","x","t","e","n","s","i","o","n">>

\* a mutant of FileExt: the category is taken without lower()
FileExtKeepsCase(name) ==
    IF Suffix(name) # <<>> THEN Tail(Suffix(name)) ELSE NoExtension

\* file_ext = source_path.suffix[1:].lower() if source_path.suffix else "no_extension"
FileExt(name) ==
    IF Suffix(name) # <<>> THEN Lower(Tail(Suffix(name))) ELSE NoExtension

\* str(counter) inside the f-string: the decimal digits of n >= 0
RECURSIVE Decimal(_)
Decimal(n) ==
    IF n < 10 THEN <<DigitChars[n + 1]>>
    ELSE Decimal(n \div 10) \o <<DigitChars[(n % 10) + 1]>>

\* new_name = f"{base_name}_{counter}{suffix}"
NewName(name, counter) ==
    Stem(name) \o <<"_">> \o Decimal(counter) \o Suffix(name)

\* ext_folder = dest_folder / file_ext, as a path relative to dest_folder
ExtFolder(name) == <<FileExt(name)>>

\* ------------------------------------------------------------------ inputs
\* the file names the source tree is drawn from: a.txt, b.TXT, c, .b, a_1.txt
NameList == << <<"a",".","t","x","t">>,
              <<"b",".","T","X","T">>,
              <<"c">>,
              <<".","b">>,
              <<"a","_","1",".","t","x","t">> >>

Names == { NameList[i] : i \in 1..Len(NameList) }

\* the place of a name in NameList
NameIndex(n) == CHOOSE i \in 1..Len(NameList) : NameList[i] = n

\* the source files are numbered by directory, then by name
Before(x, y) ==
    \/ x.dir < y.dir
    \/ x.dir = y.dir /\ NameIndex(x.name) < NameIndex(y.name)

\* the bytes of source file f: f bytes, each of value f, so that the files
\* differ in content and in length
Content(f) == [i \in 1..f |-> f]

\* the bytes of a file that is in the destination before the first run
OldContent == <<0>>

\* the k-th name that may already be in <dest>/txt: a.txt, a_1.txt, a_2.txt, ...
PreName(k) ==
    IF k = 0 THEN <<"a",".","t","x","t">>
    ELSE <<"a","_">> \o Decimal(k) \o <<".","t","x","t">>

PrePath(k) == << <<"t","x","t">>, PreName(k) >>

VARIABLES
    recursive,    \* args.recursive
    source_ok,    \* source_path.exists() and source_path.is_dir()
    parent,       \* parent[d]: the directory that holds subdirectory d
    src,          \* src[f]: the directory and the name of source file f
    run,          \* the number of the current run of the program
    mainpc,       \* where main() is
    dest_root,    \* whether the destination directory exists
    folders,      \* the directories inside the destination, relative paths
    files,        \* the regular files inside the destination: path -> bytes
    wpc,          \* wpc[d]: where the read_folder call on directory d is
    wfiles,       \* wfiles[d]: the copy_file tasks read_folder(d) created
    wdirs,        \* wdirs[d]: the read_folder tasks read_folder(d) created
    cpc,          \* cpc[f]: where the copy_file call on file f is
    dest_path,    \* dest_path[f]: the destination path copy_file chose
    opened,       \* the files whose copy_file opened its destination, this run
    enum_err,     \* the directories whose enumeration raised, this run
    start_files,  \* the destination's files when the current run started
    errors        \* the errors raised so far

vars == << recursive, source_ok, parent, src, run, mainpc, dest_root, folders,
           files, wpc, wfiles, wdirs, cpc, dest_path, opened, enum_err,
           start_files, errors >>

inputs == << recursive, source_ok, parent, src >>

\* Path.exists() on a path inside the destination
Exists(p) == p \in folders \/ p \in DOMAIN files

\* the children of directory d in the source tree
ChildFiles(d) == { f \in Files : src[f].dir = d }
ChildDirs(d) == { j \in SubDirs : parent[j] = d }

\* the state of the tasks before main() starts
NoTasks ==
    /\ wpc = [d \in Dirs |-> "none"]
    /\ wfiles = [d \in Dirs |-> {}]
    /\ wdirs = [d \in Dirs |-> {}]
    /\ cpc = [f \in Files |-> "none"]
    /\ dest_path = [f \in Files |-> <<>>]
    /\ opened = {}
    /\ enum_err = {}

Init ==
    /\ recursive \in BOOLEAN
    /\ source_ok \in BOOLEAN
    /\ parent \in [SubDirs -> Dirs]
    /\ \A j \in SubDirs : parent[j] < j
    \* without recursion the shape below the source directory is never seen
    /\ ~recursive => \A j \in SubDirs : parent[j] = 0
    /\ src \in [Files -> [dir : Dirs, name : Names]]
    /\ \A f, g \in Files : f < g => Before(src[f], src[g])
    \* a source that does not exist has no tree: one representative
    /\ ~source_ok => /\ \A j \in SubDirs : parent[j] = 0
                     /\ \A f \in Files : src[f].dir = 0
    /\ run = 1
    /\ mainpc = "start"
    /\ dest_root \in BOOLEAN
    /\ \E k \in 0..MaxPre :
          /\ ~dest_root => k = 0
          /\ folders = IF k = 0 THEN {} ELSE { << <<"t","x","t">> >> }
          /\ files = [p \in { PrePath(i) : i \in 0..(k - 1) } |-> OldContent]
    /\ start_files = files
    /\ errors = 0
    /\ NoTasks

\* ------------------------------------------------------------------- main
\* a mutant of MainStart: the destination directory is made before the source
\* is checked
MainStartMakesDirsFirst ==
    /\ mainpc = "start"
    /\ \/ /\ ~source_ok
          /\ mainpc' = "returned"
          /\ dest_root' = TRUE
          /\ UNCHANGED << wpc, errors >>
       \/ /\ source_ok
          /\ mainpc' = "walking"
          /\ dest_root' = TRUE
          /\ wpc' = [wpc EXCEPT ![0] = "scheduled"]
          /\ UNCHANGED errors
    /\ UNCHANGED << inputs, run, folders, files, wfiles, wdirs, cpc, dest_path,
                    opened, enum_err, start_files >>

\* main(), lines 122-131: the source is checked, then the destination directory
\* is made; an error of os.makedirs is not caught and ends the program
MainStart ==
    /\ mainpc = "start"
    /\ \/ /\ ~source_ok
          /\ mainpc' = "returned"
          /\ UNCHANGED << dest_root, wpc, errors >>
       \/ /\ source_ok
          /\ mainpc' = "walking"
          /\ dest_root' = TRUE
          /\ wpc' = [wpc EXCEPT ![0] = "scheduled"]
          /\ UNCHANGED errors
       \/ /\ source_ok
          /\ errors < MaxErrors
          /\ errors' = errors + 1
          /\ mainpc' = "crashed"
          /\ UNCHANGED << dest_root, wpc >>
    /\ UNCHANGED << inputs, run, folders, files, wfiles, wdirs, cpc, dest_path,
                    opened, enum_err, start_files >>

\* main() calls read_folder on the source directory as a coroutine of its own
\* task (line 136): the event loop runs another task only while that call is
\* suspended in gather. When the call returns without suspending, main returns
\* in the same step and no task it created ever starts
MainSuspended == mainpc = "walking" /\ wpc[0] = "waiting"

\* ------------------------------------------------------------ read_folder
\* directory j is d or lies below d
RECURSIVE IsUnder(_, _)
IsUnder(j, d) == j = d \/ (j # 0 /\ IsUnder(parent[j], d))

\* a mutant of Schedulable: the files of the whole subtree are listed (rglob for
\* iterdir), so a file below a subdirectory is found again by the call on it
SchedulableDeep(d) ==
    [fs |-> { f \in Files : IsUnder(src[f].dir, d) },
     ds |-> IF recursive THEN ChildDirs(d) ELSE {}]

\* a mutant of Schedulable: subdirectories are walked whatever the flag says
SchedulableIgnoringFlag(d) ==
    [fs |-> ChildFiles(d), ds |-> ChildDirs(d)]

\* what read_folder(d) may create a task for: every regular file, and every
\* subdirectory when recursive
Schedulable(d) ==
    [fs |-> ChildFiles(d), ds |-> IF recursive THEN ChildDirs(d) ELSE {}]

\* where read_folder is once the for loop has ended: in gather when it ended
\* normally with tasks, returned when there is no task or when it raised
AfterEnumeration(ok, fs, ds) ==
    IF ok /\ fs \cup ds # {} THEN "waiting" ELSE "done"

\* a mutant of Enumerate: the exception leaves read_folder, gather re-raises it in
\* the read_folder above, which logs it and returns
EnumerateUncaught(d, ok, fs, ds) ==
    /\ wfiles' = [wfiles EXCEPT ![d] = fs]
    /\ wdirs' = [wdirs EXCEPT ![d] = ds]
    /\ cpc' = [f \in Files |-> IF f \in fs THEN "scheduled" ELSE cpc[f]]
    /\ wpc' = [e \in Dirs |->
                 IF e = d THEN AfterEnumeration(ok, fs, ds)
                 ELSE IF e \in ds THEN "scheduled"
                 ELSE IF ~ok /\ d # 0 /\ e = parent[d] THEN "done"
                 ELSE wpc[e]]
    /\ enum_err' = IF ok THEN enum_err ELSE enum_err \cup {d}

\* lines 81-92 up to the await of line 96: the tasks fs and ds are created, none
\* of them has started
Enumerate(d, ok, fs, ds) ==
    /\ wfiles' = [wfiles EXCEPT ![d] = fs]
    /\ wdirs' = [wdirs EXCEPT ![d] = ds]
    /\ cpc' = [f \in Files |-> IF f \in fs THEN "scheduled" ELSE cpc[f]]
    /\ wpc' = [e \in Dirs |->
                 IF e = d THEN AfterEnumeration(ok, fs, ds)
                 ELSE IF e \in ds THEN "scheduled" ELSE wpc[e]]
    /\ enum_err' = IF ok THEN enum_err ELSE enum_err \cup {d}

\* read_folder(d) runs from its start to its first suspension. iterdir() lists in
\* an order the program does not choose, so when the loop raises (iterdir itself,
\* or is_file/is_dir on an entry) the tasks created so far are any subset
WalkStart(d) ==
    /\ wpc[d] = "scheduled"
    /\ IF d = 0 THEN mainpc = "walking" ELSE MainSuspended
    /\ \/ /\ Enumerate(d, TRUE, Schedulable(d).fs, Schedulable(d).ds)
          /\ UNCHANGED errors
       \/ /\ errors < MaxErrors
          /\ errors' = errors + 1
          /\ \E fs \in SUBSET Schedulable(d).fs, ds \in SUBSET Schedulable(d).ds :
                Enumerate(d, FALSE, fs, ds)
    /\ UNCHANGED << inputs, run, mainpc, dest_root, folders, files, dest_path,
                    opened, start_files >>

\* a task that gather no longer waits for
CopyCompleted(f) == cpc[f] \in {"done", "failed"}
WalkCompleted(d) == wpc[d] = "done"

\* await asyncio.gather(*tasks), line 96: every task of the call has completed
GatherDone(d) ==
    /\ \A f \in wfiles[d] : CopyCompleted(f)
    /\ \A j \in wdirs[d] : WalkCompleted(j)

\* read_folder(d) resumes from gather and returns
WalkFinish(d) ==
    /\ mainpc = "walking"
    /\ wpc[d] = "waiting"
    /\ GatherDone(d)
    /\ wpc' = [wpc EXCEPT ![d] = "done"]
    /\ UNCHANGED << inputs, run, mainpc, dest_root, folders, files, wfiles, wdirs,
                    cpc, dest_path, opened, enum_err, start_files, errors >>

\* -------------------------------------------------------------- copy_file
\* lines 49-52: the first name <stem>_<counter><suffix>, counter = 1, 2, ...,
\* that does not exist
RECURSIVE FreeName(_, _)
FreeName(name, counter) ==
    LET p == ExtFolder(name) \o <<NewName(name, counter)>>
    IN  IF Exists(p) THEN FreeName(name, counter + 1) ELSE p

\* a mutant of DestPath: no collision check, the name is used as it is
DestPathUnchecked(name) == ExtFolder(name) \o <<name>>

\* a mutant of DestPath: the counter is appended whether the plain name exists
\* or not
DestPathAlwaysSuffixed(name) == FreeName(name, 1)

\* a mutant of DestPath: the counter is incremented before its first use
DestPathFromTwo(name) ==
    LET p == ExtFolder(name) \o <<name>>
    IN  IF Exists(p) THEN FreeName(name, 2) ELSE p

\* lines 42-52: dest_path as copy_file resolves it against the destination
DestPath(name) ==
    LET p == ExtFolder(name) \o <<name>>
    IN  IF Exists(p) THEN FreeName(name, 1) ELSE p

\* write(data) at offset 0 of a file that holds old
Overwrite(old, data) ==
    data \o SubSeq(old, Len(data) + 1, Len(old))

\* a mutant of CopyRaises: the exception leaves copy_file, gather re-raises it in
\* the read_folder that awaits the task, which logs it and returns
CopyRaisesUncaught(f) ==
    /\ cpc' = [cpc EXCEPT ![f] = "failed"]
    /\ wpc' = [d \in Dirs |->
                 IF f \in wfiles[d] /\ wpc[d] = "waiting" THEN "done" ELSE wpc[d]]

\* lines 67-68: an exception inside copy_file is caught and logged there; the
\* task completes and nothing else changes
CopyRaises(f) ==
    /\ cpc' = [cpc EXCEPT ![f] = "failed"]
    /\ UNCHANGED wpc

\* a mutant of MayStart: the copies pass through a semaphore of one permit, a
\* copy starts only when no other copy is in flight
MayStartOneAtATime(f) ==
    /\ MainSuspended
    /\ cpc[f] = "scheduled"
    /\ \A g \in Files \ {f} : cpc[g] \notin {"reading", "writing"}

\* lines 88-89: a task made by create_task is ready at once, the event loop
\* starts it at any step where the coroutine that runs has suspended
MayStart(f) ==
    /\ MainSuspended
    /\ cpc[f] = "scheduled"

\* a mutant of CopyStart: os.makedirs is called without exist_ok, so it raises
\* when the extension folder is already there
CopyStartExclusive(f) ==
    /\ MayStart(f)
    /\ \/ /\ ExtFolder(src[f].name) \notin folders
          /\ folders' = folders \cup {ExtFolder(src[f].name)}
          /\ dest_path' = [dest_path EXCEPT ![f] = DestPath(src[f].name)]
          /\ cpc' = [cpc EXCEPT ![f] = "reading"]
          /\ UNCHANGED << errors, wpc >>
       \/ /\ errors < MaxErrors
          /\ errors' = errors + 1
          /\ CopyRaises(f)
          /\ UNCHANGED << folders, dest_path >>
       \/ /\ ExtFolder(src[f].name) \notin folders
          /\ errors < MaxErrors
          /\ errors' = errors + 1
          /\ folders' = folders \cup {ExtFolder(src[f].name)}
          /\ CopyRaises(f)
          /\ UNCHANGED dest_path
    /\ UNCHANGED << inputs, run, mainpc, dest_root, files, wfiles, wdirs, opened,
                    enum_err, start_files >>

\* copy_file(f) runs from its start to the await of line 59: the extension
\* folder is made, the name is resolved and the source is opened
CopyStart(f) ==
    /\ MayStart(f)
    /\ \/ /\ folders' = folders \cup {ExtFolder(src[f].name)}
          /\ dest_path' = [dest_path EXCEPT ![f] = DestPath(src[f].name)]
          /\ cpc' = [cpc EXCEPT ![f] = "reading"]
          /\ UNCHANGED << errors, wpc >>
       \/ \* os.makedirs raises
          /\ errors < MaxErrors
          /\ errors' = errors + 1
          /\ CopyRaises(f)
          /\ UNCHANGED << folders, dest_path >>
       \/ \* exists() or open(source_path) raises, the folder is made
          /\ errors < MaxErrors
          /\ errors' = errors + 1
          /\ folders' = folders \cup {ExtFolder(src[f].name)}
          /\ CopyRaises(f)
          /\ UNCHANGED dest_path
    /\ UNCHANGED << inputs, run, mainpc, dest_root, files, wfiles, wdirs, opened,
                    enum_err, start_files >>

\* a mutant of CopyRead: the destination is opened before the source is read,
\* so a read that raises leaves the file it has just made
CopyReadOpensFirst(f) ==
    /\ MainSuspended
    /\ cpc[f] = "reading"
    /\ \/ /\ files' = (dest_path[f] :> <<>>) @@ files
          /\ opened' = opened \cup {f}
          /\ cpc' = [cpc EXCEPT ![f] = "writing"]
          /\ UNCHANGED << errors, wpc >>
       \/ /\ errors < MaxErrors
          /\ errors' = errors + 1
          /\ files' = (dest_path[f] :> <<>>) @@ files
          /\ CopyRaises(f)
          /\ UNCHANGED opened
    /\ UNCHANGED << inputs, run, mainpc, dest_root, folders, wfiles, wdirs,
                    dest_path, enum_err, start_files >>

\* copy_file(f) resumes with the content read and runs to the await of line
\* 63: open(dest_path, "wb") creates the file or truncates it
CopyRead(f) ==
    /\ MainSuspended
    /\ cpc[f] = "reading"
    /\ \/ /\ files' = (dest_path[f] :> <<>>) @@ files
          /\ opened' = opened \cup {f}
          /\ cpc' = [cpc EXCEPT ![f] = "writing"]
          /\ UNCHANGED << errors, wpc >>
       \/ \* the read, or open(dest_path), raises
          /\ errors < MaxErrors
          /\ errors' = errors + 1
          /\ CopyRaises(f)
          /\ UNCHANGED << files, opened >>
    /\ UNCHANGED << inputs, run, mainpc, dest_root, folders, wfiles, wdirs,
                    dest_path, enum_err, start_files >>

\* copy_file(f) resumes with the content written and returns; a write that
\* raises leaves a part of the content, possibly none
CopyWrite(f) ==
    /\ MainSuspended
    /\ cpc[f] = "writing"
    /\ \/ /\ files' = [files EXCEPT
                         ![dest_path[f]] = Overwrite(@, Content(f))]
          /\ cpc' = [cpc EXCEPT ![f] = "done"]
          /\ UNCHANGED << errors, wpc >>
       \/ /\ errors < MaxErrors
          /\ errors' = errors + 1
          /\ \E k \in 0..(Len(Content(f)) - 1) :
                files' = [files EXCEPT
                            ![dest_path[f]] = Overwrite(@, SubSeq(Content(f), 1, k))]
          /\ CopyRaises(f)
    /\ UNCHANGED << inputs, run, mainpc, dest_root, folders, wfiles, wdirs,
                    dest_path, opened, enum_err, start_files >>

\* ------------------------------------------------------- the end of a run
\* a task that has not finished
CopyPending(f) == cpc[f] \in {"scheduled", "reading", "writing"}
WalkPending(d) == wpc[d] \in {"scheduled", "waiting"}

\* the destination after the writes of the cancelled tasks in L have reached the
\* file, in any order
RECURSIVE Landed(_, _)
Landed(m, L) ==
    IF L = {} THEN {m}
    ELSE UNION { Landed([m EXCEPT ![dest_path[f]] = Overwrite(@, Content(f))],
                        L \ {f}) : f \in L }

\* main() resumes from read_folder, line 136, and returns; asyncio.run, line 143,
\* then cancels the tasks that are left. CancelledError is no Exception, so
\* copy_file does not catch it. A task cancelled while its write is in the
\* executor leaves its file empty or written
MainFinish ==
    /\ mainpc = "walking"
    /\ wpc[0] = "done"
    /\ mainpc' = "done"
    /\ cpc' = [f \in Files |-> IF CopyPending(f) THEN "cancelled" ELSE cpc[f]]
    /\ wpc' = [d \in Dirs |-> IF WalkPending(d) THEN "cancelled" ELSE wpc[d]]
    /\ \E L \in SUBSET { f \in Files : cpc[f] = "writing" } :
          files' \in Landed(files, L)
    /\ UNCHANGED << inputs, run, dest_root, folders, wfiles, wdirs, dest_path,
                    opened, enum_err, start_files, errors >>

\* the process has ended: main has returned or raised and no task is left
Exited ==
    /\ mainpc \in {"done", "returned", "crashed"}
    /\ \A f \in Files : ~CopyPending(f)
    /\ \A d \in Dirs : ~WalkPending(d)

\* the program is run again with the same arguments on the same directories
RunAgain ==
    /\ Exited
    /\ run < MaxRuns
    /\ run' = run + 1
    /\ mainpc' = "start"
    /\ start_files' = files
    /\ wpc' = [d \in Dirs |-> "none"]
    /\ wfiles' = [d \in Dirs |-> {}]
    /\ wdirs' = [d \in Dirs |-> {}]
    /\ cpc' = [f \in Files |-> "none"]
    /\ dest_path' = [f \in Files |-> <<>>]
    /\ opened' = {}
    /\ enum_err' = {}
    /\ UNCHANGED << inputs, dest_root, folders, files, errors >>

Next ==
    \/ MainStart
    \/ \E d \in Dirs : WalkStart(d)
    \/ \E d \in Dirs : WalkFinish(d)
    \/ \E f \in Files : CopyStart(f)
    \/ \E f \in Files : CopyRead(f)
    \/ \E f \in Files : CopyWrite(f)
    \/ MainFinish

\* one run of the program
Spec == Init /\ [][Next]_vars

\* the event loop is fair to every task that is ready and every read or write
\* handed to the executor returns
Fairness ==
    /\ WF_vars(MainStart)
    /\ WF_vars(MainFinish)
    /\ \A d \in Dirs : WF_vars(WalkStart(d)) /\ WF_vars(WalkFinish(d))
    /\ \A f \in Files : WF_vars(CopyStart(f)) /\ WF_vars(CopyRead(f)) /\ WF_vars(CopyWrite(f))

\* one run of the program under a fair event loop
SpecFair == Init /\ [][Next]_vars /\ Fairness

\* the destination is empty before the first run
InitEmpty == Init /\ dest_root /\ files = << >> /\ folders = {}

NextRuns == Next \/ RunAgain

\* MaxRuns runs of the program, one after the other, on an empty destination
SpecRuns == InitEmpty /\ [][NextRuns]_vars

\* ======================================================================
\* The properties
\* ======================================================================

\* the files the current run has added to the destination
Added == DOMAIN files \ DOMAIN start_files

\* C1: no two copy_file calls of a run open the same destination path: each
\* copied source file has a path of its own.
C1_DistinctDestinations ==
    \A f, g \in opened : f # g => dest_path[f] # dest_path[g]

\* C2: when a read_folder call has returned, every copy_file task and every
\* read_folder task it created has completed (and so, level by level, every task
\* those created), with or without errors.
C2_ReturnedMeansAllCompleted ==
    \A d \in Dirs :
        wpc[d] = "done" =>
            /\ \A f \in wfiles[d] : CopyCompleted(f)
            /\ \A j \in wdirs[d] : WalkCompleted(j)

\* the category as C3 words it: the lowercased text after the last dot of the
\* name, no_extension when there is no such text
CategoryAfterLastDot(name) ==
    LET i == RFindDot(name)
    IN  IF i = 0 \/ i = Len(name) THEN NoExtension
        ELSE Lower(SubSeq(name, i + 1, Len(name)))

\* the category with a name whose only dot is its first character (a hidden
\* file such as .b) counted as a name without suffix
CategoryOfSuffix(name) ==
    LET i == RFindDot(name)
    IN  IF i <= 1 \/ i = Len(name) THEN NoExtension
        ELSE Lower(SubSeq(name, i + 1, Len(name)))

\* name is n itself or n with _<counter> put before the suffix, case kept
KeepsName(p, n) ==
    \/ p = n
    \/ \E k \in 1..(Cardinality(DOMAIN files) + 1) : p = NewName(n, k)

\* every file of the destination that a copy_file call opened, and every file
\* the run added, lies in <dest>/<cat(name)>/ under the name of its source
WrittenUnder(cat(_)) ==
    /\ \A f \in opened :
          /\ Len(dest_path[f]) = 2
          /\ dest_path[f][1] = cat(src[f].name)
          /\ KeepsName(dest_path[f][2], src[f].name)
    /\ \A p \in Added : \E f \in opened : p = dest_path[f]

\* C3, as stated: every file copy_file writes is in <dest>/<category>, the
\* category being the lowercased text after the last dot of the name, or
\* no_extension when there is none; nothing is written elsewhere and the file
\* name keeps its case.
C3_WrittenUnderTextAfterLastDot == WrittenUnder(CategoryAfterLastDot)

\* C3, amended: the same, where a name whose only dot is its first character
\* has no suffix and goes to no_extension.
C3_WrittenUnderSuffixCategory == WrittenUnder(CategoryOfSuffix)

\* b.TXT and .b have both been written by the run
C3_Witness ==
    /\ \E f \in opened : cpc[f] = "done" /\ src[f].name = <<"b",".","T","X","T">>
    /\ \E f \in opened : cpc[f] = "done" /\ src[f].name = <<".","b">>

\* C4: without the recursive flag no read_folder task is created, no copy_file
\* is called for a file below a subdirectory, and the files the run adds are
\* those of copy_file calls on immediate children of the source directory.
C4_NonRecursiveCopiesOnlyChildren ==
    ~recursive =>
        /\ \A j \in SubDirs : wpc[j] = "none"
        /\ \A d \in Dirs : wdirs[d] = {}
        /\ \A f \in Files : src[f].dir # 0 => cpc[f] = "none" /\ f \notin opened
        /\ \A p \in Added : \E f \in ChildFiles(0) : p = dest_path[f]

\* a non-recursive run has ended, it copied a child of the source directory and
\* left a file of a subdirectory alone
C4_Witness ==
    /\ ~recursive
    /\ mainpc = "done"
    /\ \E f \in Files : src[f].dir = 0 /\ cpc[f] = "done"
    /\ \E f \in Files : src[f].dir # 0

\* C5: after a recursive run without error, every regular file of the source
\* tree, whatever its depth, is a file of <dest>/<category>/ with its content,
\* also when files of different directories have the same name.
C5_RecursiveCopiesEveryFile ==
    (recursive /\ mainpc = "done" /\ errors = 0) =>
        \A f \in Files :
            \E p \in Added :
                /\ Len(p) = 2
                /\ p[1] = FileExt(src[f].name)
                /\ files[p] = Content(f)

\* C6: a file that is in the destination when the run starts is never opened
\* by a copy_file call and keeps its content; a source file of the same name
\* goes to a suffixed name.
C6_ExistingFilesUntouched ==
    /\ \A p \in DOMAIN start_files :
          p \in DOMAIN files /\ files[p] = start_files[p]
    /\ \A f \in opened : dest_path[f] \notin DOMAIN start_files

\* txt/a.txt was there, a source a.txt has been copied to txt/a_1.txt
C6_Witness ==
    /\ PrePath(0) \in DOMAIN start_files
    /\ \E f \in opened :
          /\ cpc[f] = "done"
          /\ src[f].name = <<"a",".","t","x","t">>
          /\ dest_path[f] = << <<"t","x","t">>, <<"a","_","1",".","t","x","t">> >>
          /\ files[dest_path[f]] = Content(f)

\* the name n with a counter put before its suffix
Suffixed(p, n) ==
    \E k \in 1..(Cardinality(DOMAIN files) + 1) : p = NewName(n, k)

\* C7: when the program has run a second time on the same source and
\* destination, without error, every file the first run left is there with its
\* content, and every source file the run visits has a new copy of its own
\* under a suffixed name: nothing is overwritten.
C7_SecondRunAddsSuffixedCopies ==
    (run >= 2 /\ mainpc = "done" /\ errors = 0) =>
        /\ \A p \in DOMAIN start_files :
              p \in DOMAIN files /\ files[p] = start_files[p]
        /\ \A f \in Files :
              cpc[f] # "none" =>
                  /\ dest_path[f] \in Added
                  /\ Suffixed(dest_path[f][2], src[f].name)
                  /\ files[dest_path[f]] = Content(f)
                  /\ \A g \in Files :
                        (g # f /\ cpc[g] # "none") => dest_path[g] # dest_path[f]

\* C8: an exception inside a copy_file call is caught there: the step in which
\* the call fails changes no other task, no read_folder returns before the
\* tasks it awaits have completed, and at the end of a run whose enumerations
\* did not fail every copy_file task has run to its end, the successful ones
\* with their file written.
C8_FailureStaysInside ==
    \A f \in Files :
        (cpc[f] # "failed" /\ cpc'[f] = "failed") =>
            /\ wpc' = wpc
            /\ \A g \in Files : g # f => cpc'[g] = cpc[g]
            /\ mainpc' = mainpc

C8_OthersStillCopied ==
    /\ \A d \in Dirs :
          (wpc[d] = "done" /\ enum_err = {}) => GatherDone(d)
    /\ (mainpc = "done" /\ enum_err = {}) =>
          \A f \in Files :
              cpc[f] # "none" =>
                  /\ cpc[f] \in {"done", "failed"}
                  /\ cpc[f] = "done" => dest_path[f] \in DOMAIN files

C8_CopyFailureIsContained ==
    [] C8_OthersStillCopied /\ [][C8_FailureStaysInside]_vars

\* a run has ended in which one copy_file failed and another task of the same
\* read_folder call copied its file
C8_Witness ==
    /\ mainpc = "done"
    /\ \E d \in Dirs : \E f, g \in wfiles[d] :
          /\ cpc[f] = "failed"
          /\ cpc[g] = "done"
          /\ files[dest_path[g]] = Content(g)

\* d and the directories above it were enumerated without error
RECURSIVE CleanChain(_)
CleanChain(d) ==
    /\ d \notin enum_err
    /\ d # 0 => CleanChain(parent[d])

\* C9: an error while read_folder(d) enumerates is caught in that call: the
\* call returns, the entries it had not reached get no task, the step changes
\* no other task, and every read_folder whose own enumeration (and those above
\* it) did not fail still waits for all its tasks, the failed call's siblings
\* among them.
C9_ErrorStaysInside ==
    \A d \in Dirs :
        (d \notin enum_err /\ d \in enum_err') =>
            /\ wpc'[d] = "done"
            /\ \A e \in Dirs : (e # d /\ e \notin wdirs'[d]) => wpc'[e] = wpc[e]
            /\ \A f \in Files : f \notin wfiles'[d] => cpc'[f] = cpc[f]
            /\ mainpc' = mainpc

C9_SiblingsComplete ==
    /\ \A d \in enum_err :
          /\ wpc[d] = "done"
          /\ \A f \in ChildFiles(d) \ wfiles[d] : cpc[f] = "none"
          /\ \A j \in ChildDirs(d) \ wdirs[d] : wpc[j] = "none"
    /\ \A d \in Dirs :
          (wpc[d] \in {"done", "cancelled"} /\ CleanChain(d)) =>
              /\ wpc[d] = "done"
              /\ GatherDone(d)

C9_EnumerationErrorIsContained ==
    [] C9_SiblingsComplete /\ [][C9_ErrorStaysInside]_vars

\* a run has ended in which the enumeration of a subdirectory failed before it
\* reached one of its files, and a file beside the subdirectory was copied
C9_Witness ==
    /\ mainpc = "done"
    /\ \E d \in enum_err \cap SubDirs :
          /\ ChildFiles(d) \ wfiles[d] # {}
          /\ d \in wdirs[parent[d]]
          /\ wpc[parent[d]] = "done"
          /\ \E f \in wfiles[parent[d]] : cpc[f] = "done"

\* C10: when the source does not exist or is no directory, main returns before
\* read_folder: no task is created, the destination directory is not made and
\* nothing in it changes; otherwise the destination directory exists when the
\* read_folder call on the source directory starts.
C10_NothingCreated ==
    ~source_ok =>
        /\ dest_root' = dest_root
        /\ files' = files
        /\ folders' = folders

C10_NoWalkWithoutSource ==
    /\ ~source_ok =>
          /\ mainpc \in {"start", "returned"}
          /\ \A d \in Dirs : wpc[d] = "none"
          /\ \A f \in Files : cpc[f] = "none"
    /\ wpc[0] # "none" => dest_root

C10_InvalidSourceStopsTheRun ==
    [] C10_NoWalkWithoutSource /\ [][C10_NothingCreated]_vars

\* main has returned on a missing source and the destination is still missing
C10_Witness ==
    /\ ~source_ok
    /\ mainpc = "returned"
    /\ ~dest_root

\* the step in which copy_file(f) resolves its destination path
Resolves(f) == cpc[f] = "scheduled" /\ cpc'[f] = "reading"

\* <dest>/<category>/<stem>_<k><suffix> for source name n
Candidate(n, k) == << FileExt(n), Stem(n) \o <<"_">> \o Decimal(k) \o Suffix(n) >>

\* C11: copy_file uses <dest>/<category>/<name> when that path does not exist
\* at the check, and otherwise <stem>_<k><suffix> for the smallest k >= 1 whose
\* path does not exist at the check, the suffix in its original case.
C11_Step ==
    \A f \in Files :
        Resolves(f) =>
            LET n == src[f].name
                plain == << FileExt(n), n >>
            IN  IF ~Exists(plain) THEN dest_path'[f] = plain
                ELSE \E k \in 1..(Cardinality(DOMAIN files) + 1) :
                        /\ dest_path'[f] = Candidate(n, k)
                        /\ ~Exists(Candidate(n, k))
                        /\ \A j \in 1..(k - 1) : Exists(Candidate(n, j))

C11_FirstFreeName == [][C11_Step]_vars

\* with txt/a.txt and txt/a_1.txt there, a source a.txt has taken txt/a_2.txt
C11_Witness ==
    /\ PrePath(0) \in DOMAIN start_files
    /\ PrePath(1) \in DOMAIN start_files
    /\ \E f \in Files :
          /\ src[f].name = <<"a",".","t","x","t">>
          /\ cpc[f] = "done"
          /\ dest_path[f] = << <<"t","x","t">>, <<"a","_","2",".","t","x","t">> >>

\* C12: a copy_file call that resolves its path after another call has opened
\* its destination never takes that path (two calls can only share a path when
\* each resolved before the other opened), and the step that makes the folder
\* and resolves the name changes the state of no other task and no file.
C12_Step ==
    \A f \in Files :
        Resolves(f) =>
            /\ \A g \in opened : dest_path'[f] # dest_path[g]
            /\ dest_path'[f] \notin DOMAIN files
            /\ \A g \in Files \ {f} :
                  cpc'[g] = cpc[g] /\ dest_path'[g] = dest_path[g]
            /\ wpc' = wpc
            /\ files' = files
            /\ opened' = opened

C12_SameWindowOnly ==
    \A f, g \in opened :
        (f # g /\ dest_path[f] = dest_path[g]) => dest_path[f] \notin DOMAIN start_files

C12_RaceWindow == [] C12_SameWindowOnly /\ [][C12_Step]_vars

\* a call resolved its path while the file another call of the same name had
\* opened was there, and took the next name
C12_Witness ==
    \E f, g \in Files :
        /\ f # g
        /\ src[f].name = src[g].name
        /\ g \in opened
        /\ f \notin opened
        /\ cpc[f] = "reading"
        /\ dest_path[g] = << FileExt(src[g].name), src[g].name >>
        /\ dest_path[f] = Candidate(src[f].name, 1)
        /\ dest_path[g] \notin DOMAIN start_files

\* C13: every file that a run without I/O error has added to the destination
\* holds exactly the bytes of one source file: it is not empty, not cut short
\* and not a mixture of two files.
C13_AddedFilesAreWholeCopies ==
    (mainpc = "done" /\ errors = 0) =>
        \A p \in Added : \E f \in Files : files[p] = Content(f)

C14_OnePerEntry ==
    /\ \A d, e \in Dirs :
          d # e => wfiles[d] \cap wfiles[e] = {} /\ wdirs[d] \cap wdirs[e] = {}
    /\ \A d \in Dirs : wfiles[d] \subseteq ChildFiles(d) /\ wdirs[d] \subseteq ChildDirs(d)
    /\ Cardinality(Added) <= Cardinality(opened)
    /\ Cardinality(opened) <= NumFiles
    /\ (recursive /\ mainpc = "done" /\ errors = 0) => opened = Files

C14_Step ==
    /\ \A f \in Files :
          /\ cpc[f] \notin {"none", "scheduled"} => cpc'[f] \notin {"none", "scheduled"}
          /\ cpc[f] # "none" => cpc'[f] # "none"
          /\ f \in opened => (cpc'[f] = "writing" => cpc[f] = "writing")
    /\ \A d \in Dirs :
          wpc[d] \in {"waiting", "done", "cancelled"} =>
              /\ wpc'[d] \in {"waiting", "done", "cancelled"}
              /\ wfiles'[d] = wfiles[d]
              /\ wdirs'[d] = wdirs[d]

\* C14: in one run a directory is enumerated once and a file gets one
\* copy_file call: the task sets of the read_folder calls are disjoint and hold
\* only their own children, a task that has started is never created again, a
\* destination is opened once per file, so at most n destinations are opened
\* for n source files, and exactly n by a recursive run without error.
C14_EnumeratedOnce == [] C14_OnePerEntry /\ [][C14_Step]_vars

\* a recursive run without error has ended, its files lie in two directories
\* and each has been opened once
C14_Witness ==
    /\ recursive
    /\ mainpc = "done"
    /\ errors = 0
    /\ opened = Files
    /\ \E f, g \in Files : src[f].dir # src[g].dir
    /\ \A f \in Files : cpc[f] = "done"

InFlight(f) == cpc[f] \in {"reading", "writing"}

\* a read_folder call leaves its for loop in this step
Enumerates(d) == wpc[d] = "scheduled" /\ wpc'[d] \in {"waiting", "done"}

C15_NoWaiting ==
    MainSuspended =>
        /\ \A f \in Files :
              /\ cpc[f] = "scheduled" => ENABLED CopyStart(f)
              /\ cpc[f] = "reading" => ENABLED CopyRead(f)
              /\ cpc[f] = "writing" => ENABLED CopyWrite(f)
        /\ \A d \in SubDirs : wpc[d] = "scheduled" => ENABLED WalkStart(d)

C15_Step ==
    \A d \in Dirs :
        Enumerates(d) =>
            /\ \A f \in wfiles'[d] : cpc'[f] = "scheduled"
            /\ \A j \in wdirs'[d] : wpc'[j] = "scheduled"
            /\ d \notin enum_err' =>
                  /\ wfiles'[d] = ChildFiles(d)
                  /\ recursive => wdirs'[d] = ChildDirs(d)

\* C15: a read_folder call has created a task for every child before any of
\* them starts; while the run lasts, a task that is ready can start and a copy
\* in flight can take its next step whatever the state of the other tasks: there
\* is no cap and no order among siblings.
C15_SiblingsRunFreely == [] C15_NoWaiting /\ [][C15_Step]_vars

\* the copies of all source files are in flight at once, two of them are
\* siblings, and either may be the next to complete
C15_Witness ==
    /\ MainSuspended
    /\ \A f \in Files : InFlight(f)
    /\ \A f \in Files : src[f].dir = 0
    /\ \A f \in Files : cpc[f] = "writing" /\ ENABLED CopyWrite(f)

\* the run has ended and every task that was created has run to its end, with
\* or without an error; the first read_folder call has returned when main made it
AllCompleted ==
    /\ mainpc \in {"done", "returned", "crashed"}
    /\ \A f \in Files : cpc[f] # "none" => CopyCompleted(f)
    /\ \A d \in Dirs : wpc[d] # "none" => WalkCompleted(d)

\* under a fair event loop the process ends: main has returned or raised and no
\* task is pending
C16_ProcessEnds == <>Exited

\* C16: under a fair event loop whose reads and writes all return, the run
\* terminates with every copy_file and read_folder task completed and the first
\* read_folder call returned.
C16_EveryTaskCompletes == <>AllCompleted

\* the extension folders that were in the destination before the run
StartFolders == { << p[1] >> : p \in DOMAIN start_files }

\* copy_file(f) has run its first lines
Started(f) ==
    \/ cpc[f] \in {"reading", "writing", "done", "failed"}
    \/ cpc[f] = "cancelled" /\ dest_path[f] # << >>

C17_LazyAndIdempotent ==
    /\ \A c \in folders :
          c \in StartFolders \/ \E f \in Files : Started(f) /\ c = ExtFolder(src[f].name)
    /\ \A f \in Files :
          (MayStart(f) /\ ExtFolder(src[f].name) \in folders) =>
              ENABLED (CopyStart(f) /\ cpc'[f] = "reading" /\ errors' = errors)

C17_Step ==
    /\ folders \subseteq folders'
    /\ DOMAIN files \subseteq DOMAIN files'
    /\ dest_root => dest_root'
    /\ \A f \in Files :
          Resolves(f) =>
              /\ folders' = folders \cup {ExtFolder(src[f].name)}
              /\ errors' = errors

\* C17: an extension folder is in the destination only if it was there before
\* the run or a copy_file call for a file of that extension has run; a call
\* that finds the folder already made, by an earlier run or by another call of
\* this run, goes on without error; no folder and no file is ever removed.
C17_FoldersOnlyGrow == [] C17_LazyAndIdempotent /\ [][C17_Step]_vars

\* two copy_file calls for the same extension have both gone past os.makedirs
\* in a run that found no such folder
C17_Witness ==
    \E f, g \in Files :
        /\ f # g
        /\ ExtFolder(src[f].name) = ExtFolder(src[g].name)
        /\ cpc[f] \in {"reading", "writing", "done"}
        /\ cpc[g] \in {"reading", "writing", "done"}
        /\ ExtFolder(src[f].name) \in folders \ StartFolders

\* file p is empty or holds only the first bytes of a source file written to it
CutShort(p) ==
    \/ files[p] = << >>
    \/ \E g \in opened :
          /\ dest_path[g] = p
          /\ Len(files[p]) < Len(Content(g))
          /\ files[p] = SubSeq(Content(g), 1, Len(files[p]))

C18_NoFileBeforeOpen ==
    /\ \A f \in Files :
          (cpc[f] = "failed" /\ f \notin opened
              /\ \A g \in opened : dest_path[g] # dest_path[f]) =>
                 dest_path[f] \notin Added
    /\ mainpc = "done" =>
          \A p \in Added :
              CutShort(p) =>
                  \E f \in opened : dest_path[f] = p /\ cpc[f] \in {"failed", "cancelled"}

C18_Step ==
    /\ \A f \in Files :
          (cpc[f] \in {"scheduled", "reading"} /\ cpc'[f] = "failed") =>
              /\ files' = files
              /\ f \notin opened'
              /\ folders \subseteq folders'
              /\ cpc[f] = "reading" => ExtFolder(src[f].name) \in folders'
    /\ \A p \in DOMAIN files' :
          (p \notin DOMAIN files \/ files'[p] # files[p]) =>
              \E f \in opened' :
                  /\ dest_path[f] = p
                  /\ cpc[f] \in {"reading", "writing"}
                  /\ cpc'[f] # cpc[f]

Plain(f) == << FileExt(src[f].name), src[f].name >>

\* the destination a run without recursion leaves when it began empty
Expected ==
    [p \in { Plain(f) : f \in ChildFiles(0) } |->
        Content(CHOOSE f \in ChildFiles(0) : Plain(f) = p)]

EmptyFlatRun == ~recursive /\ start_files = << >>

\* C19: without recursion and with nothing in the destination at the start,
\* every copy_file call resolves the path with the unchanged name of its file,
\* no two calls resolve the same path, and a run without error ends with the
\* same destination whatever the order of the steps.
C19_FlatRunIsCollisionFree ==
    EmptyFlatRun =>
        /\ \A f \in Files :
              dest_path[f] # << >> => dest_path[f] = Plain(f) /\ src[f].dir = 0
        /\ \A f, g \in Files :
              (f # g /\ dest_path[f] # << >>) => dest_path[f] # dest_path[g]
        /\ (mainpc = "done" /\ errors = 0) =>
              /\ files = Expected
              /\ folders = { ExtFolder(src[f].name) : f \in ChildFiles(0) }

\* such a run has ended without error after copying two files of the source
\* directory into the same extension folder
C19_Witness ==
    /\ EmptyFlatRun
    /\ mainpc = "done"
    /\ errors = 0
    /\ ChildFiles(0) = Files
    /\ \A f \in Files : cpc[f] = "done" /\ files[Plain(f)] = Content(f)
    /\ \E f, g \in Files : f # g /\ ExtFolder(src[f].name) = ExtFolder(src[g].name)

====
